---- MODULE Spec2Model ----
(***************************************************************************)
(* Data-acquisition layer of the astro-nexus dashboard (src/src/lib/api.ts *)
(* and the components that consume it), as a state machine.                *)
(*                                                                         *)
(* Time is the event-loop clock `now` in milliseconds.  One action is one  *)
(* macrotask (a timer callback, a network event) together with every       *)
(* microtask continuation it unblocks.                                     *)
(***************************************************************************)
EXTENDS Integers, Sequences, FiniteSets, TLC

VARIABLES
  now,      \* event-loop clock, ms
  req,      \* one bounded-fetch call (fetchJson / fetchTle) on its own
  calls,    \* the bounded-fetch call of each attempt of fetchNextISSPass
  tasks,    \* the settled state of each adapter task (api.ts:98-130)
  agg,      \* the promise returned by fetchNextISSPass
  firstOk,  \* history: index of the task whose success completed first
  launchReq,\* the bounded-fetch call of the running fetchUpcomingLaunches
  query,    \* the useQuery state behind MissionsFeed
  wx,       \* the space-weather feeds and the snapshot computed from them
  wxCalls,  \* the two bounded-fetch calls of fetchSpaceWeather
  posReq,   \* the bounded-fetch call of fetchISSPosition
  pos,      \* the promise returned by fetchISSPosition
  run,      \* one adapter body applied to one fetched body
  single,   \* the bounded-fetch call of the single-source fetchNextISSPass
  singleOut,\* the promise returned by the single-source fetchNextISSPass
  position, \* the position state of ISSTracker
  updates,  \* how many times the interval callback has run
  chat,     \* the state of AIExplainer: messages, input, isLoading
  send      \* where the running handleSend is suspended

vars ==
  <<now, req, calls, tasks, agg, firstOk, launchReq, query, wx, wxCalls, posReq, pos, run,
    single, singleOut, position, updates, chat, send>>

(***************************************************************************)
(* Bounds of the model.                                                    *)
(***************************************************************************)
StepMs == 1000          \* clock granularity
MaxTicks == 13          \* the clock stops after MaxTicks steps
MaxStartTick == 2       \* a stand-alone call starts within the first ticks
BlockLen == 48          \* scan iterations evaluated per block
MaxRows == 14           \* rows of a weather feed, header included

(***************************************************************************)
(* JavaScript numbers: an integer, an integer plus one half, or NaN.       *)
(***************************************************************************)
Num(n) == [k |-> "int", v |-> n]
Half(n) == [k |-> "frac", v |-> n]
NaN == [k |-> "nan", v |-> 0]

IsInteger(x) == x.k = "int"
Infinity == [k |-> "inf", v |-> 1]
NegInfinity == [k |-> "inf", v |-> -1]

\* Number.isFinite
IsFiniteNum(x) == x.k \in {"int", "frac"}

\* x >= 0 and x > 0 for a finite x (Half(n) is n + 1/2)
AtLeastZero(x) == x.v >= 0
AboveZero(x) == IF x.k = "frac" THEN x.v >= 0 ELSE x.v > 0

\* Math.floor(x / 1000) for an integral or NaN x
FloorDiv1000(x) == IF x.k = "int" THEN Num(x.v \div 1000) ELSE NaN

\* a division that drops the fraction
TruncDiv1000(x) == IF x.k = "int" THEN Num(x.v \div 1000) ELSE NaN

\* Math.round(x / 1000): round half towards +Infinity
RoundDiv1000(x) == IF x.k = "int" THEN Num((x.v + 500) \div 1000) ELSE NaN

\* a - b
Minus(a, b) == IF a.k = "int" /\ b.k = "int" THEN Num(a.v - b.v) ELSE NaN

\* Math.max(0, x): NaN if x is NaN
Max0(x) == IF x.k = "nan" THEN NaN ELSE IF x.v < 0 THEN Num(0) ELSE x

(***************************************************************************)
(* Thrown values.  isError is `reason instanceof Error`; text, status and  *)
(* statusText make up the message.                                         *)
(***************************************************************************)
Err(name, text, status, statusText) ==
  [isError |-> TRUE, name |-> name, text |-> text,
   status |-> status, statusText |-> statusText]

NoErr == [isError |-> FALSE, name |-> "", text |-> "", status |-> 0, statusText |-> ""]

\* a rejection whose reason is not an Error object (a thrown string, ...)
NonError == [isError |-> FALSE, name |-> "", text |-> "thrown value", status |-> 0, statusText |-> ""]

AbortError == Err("AbortError", "The operation was aborted", 0, "")
NetworkFailure == Err("TypeError", "Failed to fetch", 0, "")
SyntaxErr == Err("SyntaxError", "Unexpected token", 0, "")
NullDeref == Err("TypeError", "Cannot read properties of null", 0, "")

\* what fetch() itself can reject with while the signal is not aborted
FetchRejections == {NetworkFailure, NonError}

\* status line of a response
Responses ==
  { [status |-> 200, statusText |-> "OK"],
    [status |-> 404, statusText |-> "Not Found"],
    [status |-> 503, statusText |-> "Service Unavailable"] }

\* Response.ok
Ok(resp) == resp.status >= 200 /\ resp.status <= 299

(***************************************************************************)
(* Response bodies.  A JSON body is null, unparsable text, or an object    *)
(* with (has) or without the list the adapter reads; a text body is an     *)
(* element-set document.                                                   *)
(***************************************************************************)
NoBody == [t |-> "none"]
NullBody == [t |-> "null"]
Malformed == [t |-> "malformed"]
ListBody(has, list) == [t |-> "list", has |-> has, list |-> list]

\* items of {response: [...]}: risetime and duration as the source sent them
RawPasses ==
  { [risetime |-> Num(5400), duration |-> Num(600)],
    [risetime |-> Half(7200), duration |-> Num(-30)] }

\* an ISO timestamp string: well-formed (denoting the instant ms) or not
Iso(ms) == [iso |-> TRUE, ms |-> ms]
BadDate == [iso |-> FALSE, ms |-> 0]

\* Date.parse
DateParse(s) == IF s.iso THEN Num(s.ms) ELSE NaN

\* items of {passes: [...]}
RawSatPasses ==
  { [aos |-> Iso(5400000), los |-> Iso(6000499)],
    [aos |-> Iso(5400500), los |-> Iso(6001000)],
    [aos |-> Iso(6000000), los |-> Iso(5400000)],
    [aos |-> BadDate, los |-> Iso(6000000)] }

PassBodies ==
  {NullBody, Malformed, ListBody(FALSE, <<>>), ListBody(TRUE, <<>>)}
    \cup {ListBody(TRUE, <<p>>) : p \in RawPasses}

SatBodies ==
  {NullBody, ListBody(FALSE, <<>>), ListBody(TRUE, <<>>)}
    \cup {ListBody(TRUE, <<p>>) : p \in RawSatPasses}

(***************************************************************************)
(* Bounded fetch: fetchJson (api.ts:9-28) and fetchTle (api.ts:150-165).   *)
(* A call is a record; each operator below is one step of the function.    *)
(***************************************************************************)
DEFAULT_TIMEOUT == 8000

Pending == [st |-> "pending", body |-> NoBody, err |-> NoErr]
NoResp == [status |-> 0, statusText |-> ""]

IdleCall ==
  [fn |-> "fetchJson", timeoutMs |-> DEFAULT_TIMEOUT, phase |-> "idle",
   timer |-> "unset", startedAt |-> 0, aborted |-> FALSE,
   resp |-> NoResp, raised |-> NoErr, res |-> Pending]

\* controller = new AbortController(); timeout = setTimeout(abort, timeoutMs);
\* then the call waits for fetch()
NewCall(fn, timeoutMs, t) ==
  [IdleCall EXCEPT !.fn = fn, !.timeoutMs = timeoutMs, !.phase = "fetch",
                   !.timer = "armed", !.startedAt = t]

\* when the setTimeout of the call is due
Deadline(c) == c.startedAt + c.timeoutMs

TimeoutText(fn) == IF fn = "fetchJson" THEN "Request timed out" ELSE "TLE request timed out"
FailedText(fn) == IF fn = "fetchJson" THEN "Request failed:" ELSE "TLE request failed:"

TimeoutError(fn) == Err("Error", TimeoutText(fn), 0, "")
HttpError(fn, resp) == Err("Error", FailedText(fn), resp.status, resp.statusText)

\* the catch clause without its AbortError branch
CatchRethrow(fn, err) == err

\* the catch clause: an AbortError becomes the timeout failure, anything
\* else is rethrown as it is
Catch(fn, err) ==
  IF err.isError /\ err.name = "AbortError" THEN TimeoutError(fn) ELSE err

\* a call that never clears its timer
ClearTimeoutSkipped(timer) == timer

\* the finally clause: clearTimeout(timeout)
ClearTimeout(timer) == IF timer = "armed" THEN "cleared" ELSE timer

\* a throw inside the try block: catch, then finally
Reject(c, err) ==
  [c EXCEPT !.phase = "settled", !.raised = err,
            !.res = [st |-> "rejected", body |-> NoBody, err |-> Catch(c.fn, err)],
            !.timer = ClearTimeout(c.timer)]

\* return of the parsed body, then finally
Fulfil(c, body) ==
  [c EXCEPT !.phase = "settled",
            !.res = [st |-> "fulfilled", body |-> body, err |-> NoErr],
            !.timer = ClearTimeout(c.timer)]

\* a response handler that reads the body whatever the status
OnResponseAnyStatus(c, resp) == [c EXCEPT !.resp = resp, !.phase = "body"]

\* fetch() resolved with a response: `if (!res.ok) throw`, else read the body
OnResponse(c, resp) ==
  IF ~Ok(resp)
    THEN Reject([c EXCEPT !.resp = resp], HttpError(c.fn, resp))
    ELSE [c EXCEPT !.resp = resp, !.phase = "body"]

\* res.json() / res.text() settled with the whole body: JSON.parse throws a
\* SyntaxError on text that is not JSON, res.text() takes any text
OnBody(c, body) ==
  IF c.fn = "fetchJson" /\ body.t = "malformed"
    THEN Reject(c, SyntaxErr)
    ELSE Fulfil(c, body)

\* a timer callback whose abort does not reach the pending fetch
OnTimerUnheard(c) == [c EXCEPT !.timer = "fired", !.aborted = TRUE]

\* the timer callback: controller.abort(); a pending fetch() or body read
\* rejects with an AbortError
OnTimer(c) ==
  LET c1 == [c EXCEPT !.timer = "fired", !.aborted = TRUE]
  IN  IF c.phase \in {"fetch", "body"} THEN Reject(c1, AbortError) ELSE c1

IsPending(c) == c.phase \in {"fetch", "body"}
IsDue(c) == c.timer = "armed" /\ now >= Deadline(c)

(***************************************************************************)
(* computeNextPassFromTle (api.ts:167-217).  The element-set text has      *)
(* `lines` non-blank lines; the orbit it encodes, seen from the observer,  *)
(* is above the horizon exactly at the scan steps rise .. set-1.           *)
(***************************************************************************)
stepMs == 10000
HorizonMs == 6 * 60 * 60 * 1000
LastStep == HorizonMs \div stepMs   \* t <= end.getTime()

\* an orbit for which propagation yields no position at the scan steps
\* lostFrom .. lostTo-1
OrbitLost(rise, set, lostFrom, lostTo) ==
  [rise |-> rise, set |-> set, lostFrom |-> lostFrom, lostTo |-> lostTo]

Orbit(rise, set) == OrbitLost(rise, set, 0, 0)

TleBodyOf(lines, orbit) == [t |-> "tle", lines |-> lines, orbit |-> orbit]
TleBody(lines, rise, set) == TleBodyOf(lines, Orbit(rise, set))

Orbits == {Orbit(0, 0), Orbit(0, 30), Orbit(60, 90), Orbit(2100, 2200)}

TleBodies ==
  {TleBody(1, 60, 90), TleBody(3, 60, 90)}
    \cup {TleBodyOf(2, o) : o \in Orbits}

\* the orbits the scan is checked on: rising at the first step, inside the
\* window, at its last step or after it; staying up for no step, one step,
\* many steps or beyond the window; with and without steps that have no
\* position (all of them when the element set does not decode)
ScanRises == {0, 1, 60, LastStep - 1, LastStep, LastStep + 1}
ScanLengths == {0, 1, 30, LastStep + 1}
ScanLosses == {<<0, 0>>, <<0, 5>>, <<58, 62>>, <<0, LastStep + 1>>}

ScanOrbits ==
  Orbits \cup {OrbitLost(r, r + d, l[1], l[2]) :
                 r \in ScanRises, d \in ScanLengths, l \in ScanLosses}

\* `new Date()` at the call of computeNextPassFromTle, ms
ScanStarts == {0, 7123, 7500}

\* pv.position is there at scan step k
HasPosition(orbit, k) == ~(orbit.lostFrom <= k /\ k < orbit.lostTo)

\* lookAngles.elevation > 0 at scan step k
ElevationUp(orbit, k) == orbit.rise <= k /\ k < orbit.set

NoStep == -1

\* one iteration of the for loop at step k: a step without position is
\* skipped; aos is set at the first step with elevation > 0, los at the
\* first later step with elevation <= 0
LoopBody(orbit, k, s) ==
  LET up == ElevationUp(orbit, k)
      inPass1 == s.inPass \/ up
      aos1 == IF up /\ ~s.inPass THEN k ELSE s.aos
  IN  IF ~HasPosition(orbit, k) THEN s
      ELSE [inPass |-> inPass1, aos |-> aos1, los |-> IF ~up /\ inPass1 THEN k ELSE NoStep]

\* the iterations k .. last, stopping at the break
RECURSIVE Loop(_, _, _, _)
Loop(orbit, k, last, s) ==
  IF k > last \/ s.los # NoStep
    THEN s
    ELSE Loop(orbit, k + 1, last, LoopBody(orbit, k, s))

\* the whole loop, run in blocks of BlockLen iterations
RECURSIVE Blocks(_, _, _)
Blocks(orbit, k, s) ==
  IF k > LastStep \/ s.los # NoStep
    THEN s
    ELSE LET last == IF k + BlockLen - 1 < LastStep THEN k + BlockLen - 1 ELSE LastStep
             s1 == Loop(orbit, k, last, s)
         IN  Blocks(orbit, last + 1, s1)

Scan(orbit) == Blocks(orbit, 0, [inPass |-> FALSE, aos |-> NoStep, los |-> NoStep])

\* the scan of every orbit of the model, computed once
ScanOf == [o \in ScanOrbits |-> Scan(o)]

NoValue == [none |-> TRUE]

\* a scan that takes the end of the window for a set it did not find
computeNextPassGuessed(tle, start) ==
  IF tle.lines < 2
    THEN NoValue
    ELSE LET s == ScanOf[tle.orbit]
             aos == Num(start + s.aos * stepMs)
             los == Num(start + (IF s.los # NoStep THEN s.los ELSE LastStep) * stepMs)
         IN  IF s.aos # NoStep
               THEN [risetime |-> FloorDiv1000(aos),
                     duration |-> Max0(RoundDiv1000(Minus(los, aos)))]
               ELSE NoValue

\* start is `new Date()` at the time of the call
computeNextPassFromTle(tle, start) ==
  IF tle.lines < 2
    THEN NoValue
    ELSE LET s == ScanOf[tle.orbit]
             aos == Num(start + s.aos * stepMs)
             los == Num(start + s.los * stepMs)
         IN  IF s.aos # NoStep /\ s.los # NoStep
               THEN [risetime |-> FloorDiv1000(aos),
                     duration |-> Max0(RoundDiv1000(Minus(los, aos)))]
               ELSE NoValue

(***************************************************************************)
(* fetchNextISSPass, multi-source (api.ts:59-148).                         *)
(***************************************************************************)
attempts ==
  << [kind |-> "open",  timeoutMs |-> 6000],
     [kind |-> "proxy", timeoutMs |-> 8000],
     [kind |-> "proxy", timeoutMs |-> 8000],
     [kind |-> "sat",   timeoutMs |-> 9000],
     [kind |-> "tle",   timeoutMs |-> 7000] >>

Attempts == 1..Len(attempts)

\* the bounded fetch an attempt goes through
FnOf(kind) == IF kind = "tle" THEN "fetchTle" ELSE "fetchJson"

\* the bodies the source of an attempt may send
BodiesOf(kind) ==
  IF kind = "tle" THEN TleBodies ELSE IF kind = "sat" THEN SatBodies ELSE PassBodies

NoPassData == Err("Error", "No pass data returned", 0, "")
GenericError == Err("Error", "Could not fetch next pass for your location.", 0, "")

TaskPending == [st |-> "pending", val |-> NoValue, err |-> NoErr]
Fulfilled(v) == [st |-> "fulfilled", val |-> v, err |-> NoErr]
Rejected(e) == [st |-> "rejected", val |-> NoValue, err |-> e]

\* data.response?.length / data.passes?.length
HasItems(body) == body.has /\ Len(body.list) > 0

\* the body of one task (api.ts:99-129), from the settled bounded fetch
Adapter(kind, res, start) ==
  IF res.st = "rejected" THEN Rejected(res.err)
  ELSE IF kind = "tle" THEN
    LET pass == computeNextPassFromTle(res.body, start)
    IN  IF pass # NoValue THEN Fulfilled(pass) ELSE Rejected(NoPassData)
  ELSE IF res.body.t = "null" THEN Rejected(NullDeref)
  ELSE IF kind = "sat" THEN
    IF HasItems(res.body)
      THEN LET first == res.body.list[1]
               risetime == DateParse(first.aos)
               los == DateParse(first.los)
               duration == Max0(RoundDiv1000(Minus(los, risetime)))
           IN  Fulfilled([risetime |-> FloorDiv1000(risetime), duration |-> duration])
      ELSE Rejected(NoPassData)
  ELSE
    IF HasItems(res.body)
      THEN Fulfilled(res.body.list[1])
      ELSE Rejected(NoPassData)

AllSettled(ts) == \A i \in Attempts : ts[i].st # "pending"

\* a search that returns the last element, in declaration order
FindLast(ts, st) ==
  IF \E i \in Attempts : ts[i].st = st
    THEN CHOOSE i \in Attempts : ts[i].st = st /\ \A j \in (i + 1)..Len(attempts) : ts[j].st # st
    ELSE 0

\* settled.find(pred): the first element, in declaration order
Find(ts, st) ==
  IF \E i \in Attempts : ts[i].st = st
    THEN CHOOSE i \in Attempts : ts[i].st = st /\ \A j \in 1..(i - 1) : ts[j].st # st
    ELSE 0

\* a resolution that looks at the first attempt only
ResolveFirstOnly(settled) ==
  IF settled[1].st = "fulfilled"
    THEN Fulfilled(settled[1].val)
    ELSE IF settled[1].err.isError THEN Rejected(settled[1].err) ELSE Rejected(GenericError)

\* api.ts:132-147, run once Promise.allSettled(tasks) has resolved
Resolve(settled) ==
  LET success == Find(settled, "fulfilled")
      firstError == Find(settled, "rejected")
  IN  IF success # 0 THEN Fulfilled(settled[success].val)
      ELSE IF firstError # 0 /\ settled[firstError].err.isError
        THEN Rejected(settled[firstError].err)
        ELSE Rejected(GenericError)

AggIdle == [st |-> "idle", val |-> NoValue, err |-> NoErr]

\* the bounded fetch has returned to the task: its locals (res, err) are
\* gone, its timer and its AbortController remain
Release(c) ==
  [c EXCEPT !.resp = NoResp, !.raised = NoErr,
            !.res = [c.res EXCEPT !.body = NoBody, !.err = NoErr]]

\* attempt i's bounded fetch moves to c2; when that settles it the task body
\* runs, and when it was the last task to settle fetchNextISSPass resumes
AdvanceAttempt(i, c2) ==
  LET settles == c2.phase = "settled" /\ calls[i].phase # "settled"
      t2 == IF settles
              THEN [tasks EXCEPT ![i] = Adapter(attempts[i].kind, c2.res, now)]
              ELSE tasks
  IN  /\ calls' = [calls EXCEPT ![i] = IF settles THEN Release(c2) ELSE c2]
      /\ tasks' = t2
      /\ firstOk' = IF firstOk = 0 /\ settles /\ t2[i].st = "fulfilled" THEN i ELSE firstOk
      /\ agg' = IF agg.st = "pending" /\ AllSettled(t2) THEN Resolve(t2) ELSE agg

(***************************************************************************)
(* fetchNextISSPass, single-source (unnamed/part_000:57-72): one bounded   *)
(* fetch of the open-notify source, the same fetchJson as above.           *)
(***************************************************************************)
SINGLE_TIMEOUT == 8000

\* what the single-source fetchNextISSPass settles with once its fetchJson
\* has settled
fetchNextISSPassSingle(res) ==
  IF res.st = "rejected" THEN Rejected(res.err)
  ELSE IF res.body.t = "null" THEN Rejected(NullDeref)
  ELSE IF ~HasItems(res.body) THEN Rejected(NoPassData)
  ELSE Fulfilled(res.body.list[1])

(***************************************************************************)
(* ISSTracker (unnamed/part_001:12-42): the simulated position.  Degrees   *)
(* are kept in ten-thousandths (the initial longitude is -0.1278), the     *)
(* altitude in metres; the rounding of the floating-point sums is far      *)
(* below that unit.  Math.sin(Date.now() / ..) and Math.random() are any   *)
(* value of their range, sampled with the extremes included.               *)
(***************************************************************************)
PerDegree == 10000
MaxUpdates == 40

InitialPosition ==
  [latitude |-> 515074, longitude |-> -1278, altitude |-> 420000, velocity |-> 27600]

\* a % n of JavaScript: the remainder has the sign of the dividend
Remainder(a, n) == IF a >= 0 THEN a % n ELSE -((-a) % n)

\* Math.sin(..), in thousandths
Sines == {-1000, -500, 0, 500, 1000}

\* Math.random() * 100 - 50, a value of [-50, 50)
Jitters == {-50, 0, 49}

LON_STEP == 1000
INCLINATION == 516000
MEAN_ALTITUDE == 408000
ALTITUDE_SWING == 12000
MEAN_VELOCITY == 27600

\* the updater passed to setPosition
updatePosition(prev, sinLat, sinAlt, jitter) ==
  [latitude |-> (sinLat * INCLINATION) \div 1000,
   longitude |-> Remainder(prev.longitude + LON_STEP, 360 * PerDegree) - 180 * PerDegree,
   altitude |-> MEAN_ALTITUDE + (sinAlt * ALTITUDE_SWING) \div 1000,
   velocity |-> MEAN_VELOCITY + jitter]

(***************************************************************************)
(* fetchUpcomingLaunches (api.ts:247-268).  An optional field of a raw     *)
(* record is <<>> when absent and <<x>> when present; a status name is a   *)
(* sequence of characters.                                                 *)
(***************************************************************************)
None == <<>>
Some(x) == <<x>>

\* a ?? b
Coalesce(a, b) == IF a # None THEN a ELSE b

UpperToLower ==
  [c \in {"G", "O", "T", "B", "D"} |->
     CASE c = "G" -> "g" [] c = "O" -> "o" [] c = "T" -> "t" [] c = "B" -> "b" [] c = "D" -> "d"]

\* a string left as it is
KeepCase(str) == str

\* String.prototype.toLowerCase
toLowerCase(str) ==
  [i \in DOMAIN str |-> IF str[i] \in DOMAIN UpperToLower THEN UpperToLower[str[i]] ELSE str[i]]

FullLaunch ==
  [id |-> "a1", name |-> "Crew-9", net |-> 1,
   status |-> Some(<<"G", "o">>), rocket |-> Some("Falcon 9"),
   provider |-> Some("SpaceX"), missionName |-> Some("Crew-9"),
   description |-> Some("Crew rotation"), padName |-> Some("SLC-40"),
   locationName |-> Some("Cape Canaveral"),
   infoURLs |-> <<"https://info">>, vidURLs |-> <<"https://vid">>]

MinimalLaunch ==
  [id |-> "b2", name |-> "Unnamed", net |-> 2,
   status |-> None, rocket |-> None, provider |-> None, missionName |-> None,
   description |-> None, padName |-> None, locationName |-> None,
   infoURLs |-> <<>>, vidURLs |-> <<>>]

PartialLaunch ==
  [id |-> "c3", name |-> "Kuiper", net |-> 3,
   status |-> Some(<<"T", "B", "D">>), rocket |-> None,
   provider |-> Some("ULA"), missionName |-> None,
   description |-> None, padName |-> None,
   locationName |-> Some("Vandenberg"),
   infoURLs |-> <<>>, vidURLs |-> <<"https://vid">>]

\* xs?.[0]
FirstOf(xs) == IF Len(xs) > 0 THEN Some(xs[1]) ELSE None

\* the record one raw launch is mapped to (api.ts:253-267)
MapLaunch(launch) ==
  [id |-> launch.id,
   name |-> launch.name,
   provider |-> Coalesce(launch.provider, Some("Unknown provider"))[1],
   rocket |-> Coalesce(launch.rocket, Some("Unknown vehicle"))[1],
   launchSite |->
     Coalesce(launch.padName, Coalesce(launch.locationName, Some("Launch site TBA")))[1],
   launchDate |-> launch.net,
   status |->
     IF launch.status # None THEN toLowerCase(launch.status[1]) ELSE <<"t", "b", "d">>,
   payload |-> Coalesce(launch.description, Some("Payload details not provided"))[1],
   missionName |-> launch.missionName,
   infoUrl |-> Coalesce(FirstOf(launch.infoURLs), FirstOf(launch.vidURLs))]

LaunchBodies ==
  { NullBody, Malformed, ListBody(FALSE, <<>>), ListBody(TRUE, <<>>),
    ListBody(TRUE, <<FullLaunch>>),
    ListBody(TRUE, <<MinimalLaunch, PartialLaunch>>),
    ListBody(TRUE, <<FullLaunch, MinimalLaunch, PartialLaunch, FullLaunch, MinimalLaunch>>) }

LAUNCH_TIMEOUT == 12000

\* fetchUpcomingLaunches(limit = 4)
DEFAULT_LIMIT == 4

UndefinedDeref == Err("TypeError", "Cannot read properties of undefined", 0, "")

\* what fetchUpcomingLaunches settles with once its fetchJson has settled
fetchUpcomingLaunches(res) ==
  IF res.st = "rejected" THEN Rejected(res.err)
  ELSE IF res.body.t = "null" THEN Rejected(NullDeref)
  ELSE IF ~res.body.has THEN Rejected(UndefinedDeref)
  ELSE Fulfilled([i \in DOMAIN res.body.list |-> MapLaunch(res.body.list[i])])

\* raw launch records with each optional field there or not; a field that
\* is there may hold the empty string
RawLaunchOf(provider, rocket, padName, locationName, status, description) ==
  [MinimalLaunch EXCEPT !.provider = provider, !.rocket = rocket, !.padName = padName,
                        !.locationName = locationName, !.status = status,
                        !.description = description]

RawLaunches ==
  {RawLaunchOf(p, r, pad, loc, st, d) :
     p \in {None, Some("SpaceX"), Some("")},
     r \in {None, Some("Falcon 9")},
     pad \in {None, Some("SLC-40")},
     loc \in {None, Some("Cape Canaveral")},
     st \in {None, Some(<<"G", "o">>), Some(<<"T", "B", "D">>), Some(<<>>)},
     d \in {None, Some("Crew rotation")}}

(***************************************************************************)
(* fetchISSPosition (api.ts:38-52).  A field of the body is <<>> when the  *)
(* object has no such property.                                            *)
(***************************************************************************)
PositionBody(latitude, longitude, altitude, velocity) ==
  [t |-> "position", latitude |-> latitude, longitude |-> longitude,
   altitude |-> altitude, velocity |-> velocity]

PositionBodies ==
  { NullBody, Malformed,
    PositionBody(Some(Num(51)), Some(Num(-12)), Some(Num(420)), Some(Num(27600))),
    PositionBody(Some(Num(51)), None, None, None),
    PositionBody(None, None, None, None) }

\* what fetchISSPosition settles with once its fetchJson has settled at
\* time t: the four fields are copied as they are
fetchISSPosition(res, t) ==
  IF res.st = "rejected" THEN Rejected(res.err)
  ELSE IF res.body.t = "null" THEN Rejected(NullDeref)
  ELSE Fulfilled([latitude |-> res.body.latitude, longitude |-> res.body.longitude,
                  altitude |-> res.body.altitude, velocity |-> res.body.velocity,
                  timestamp |-> t])

(***************************************************************************)
(* MissionsFeed (AIExplainer.tsx:428-440): useQuery over                   *)
(* fetchUpcomingLaunches(4) with retry: 1 and a refetch interval.          *)
(***************************************************************************)
MaxFetches == 4     \* runs of the query function in one behaviour

Retry == 1

\* the four records of mockMissions, by id
mockMissions == <<"mock-1", "mock-2", "mock-3", "mock-4">>

QueryInit ==
  [phase |-> "unmounted", status |-> "loading", hasData |-> FALSE, data |-> <<>>,
   failureCount |-> 0, fetches |-> 0]

\* the list the component renders (AIExplainer.tsx:437-440)
missions ==
  IF query.status # "error" /\ query.hasData /\ Len(query.data) > 0
    THEN [i \in DOMAIN query.data |-> query.data[i].id]
    ELSE mockMissions

\* the query function has settled: the query takes its result, schedules
\* the one retry, or goes to the error state keeping its data
QuerySettled(q, result) ==
  IF result.st = "fulfilled"
    THEN [q EXCEPT !.phase = "idle", !.status = "success", !.hasData = TRUE,
                   !.data = result.val, !.failureCount = 0]
    ELSE IF q.failureCount < Retry
      THEN [q EXCEPT !.phase = "retrying", !.failureCount = q.failureCount + 1]
      ELSE [q EXCEPT !.phase = "idle", !.status = "error",
                     !.failureCount = q.failureCount + 1]

(***************************************************************************)
(* fetchSpaceWeather (api.ts:279-319).  A feed is a sequence of rows, a    *)
(* row a sequence of cells; a cell is a JSON number, a JSON string (a      *)
(* sequence of characters) or null.  Reading past the end of a row gives   *)
(* undefined.                                                              *)
(***************************************************************************)
HISTORY_LEN == 12

NumCell(x) == [t |-> "number", n |-> x, s |-> <<>>]
StrCell(str) == [t |-> "string", n |-> NaN, s |-> str]
NullCell == [t |-> "null", n |-> NaN, s |-> <<>>]
Undefined == [t |-> "undefined", n |-> NaN, s |-> <<>>]

Digits == {"0", "1", "2", "3", "4", "5", "6", "7", "8", "9"}

DigitValue(ch) ==
  CASE ch = "0" -> 0 [] ch = "1" -> 1 [] ch = "2" -> 2 [] ch = "3" -> 3 [] ch = "4" -> 4
    [] ch = "5" -> 5 [] ch = "6" -> 6 [] ch = "7" -> 7 [] ch = "8" -> 8 [] ch = "9" -> 9

\* the value of a sequence of decimal digits
RECURSIVE DigitsValue(_)
DigitsValue(ds) ==
  IF ds = <<>> THEN 0
  ELSE 10 * DigitsValue(SubSeq(ds, 1, Len(ds) - 1)) + DigitValue(ds[Len(ds)])

\* a string without its leading and trailing blanks
RECURSIVE Trim(_)
Trim(str) ==
  IF str = <<>> THEN str
  ELSE IF str[1] = " " THEN Trim(Tail(str))
  ELSE IF str[Len(str)] = " " THEN Trim(SubSeq(str, 1, Len(str) - 1))
  ELSE str

InfinityChars == <<"I", "n", "f", "i", "n", "i", "t", "y">>

\* Number(str) of a string: blank is 0, a decimal literal its value,
\* "Infinity" infinite, anything else NaN
StringToNumber(str) ==
  LET t == Trim(str)
  IN  IF t = <<>> THEN Num(0)
      ELSE
        LET neg == t[1] = "-"
            body == IF t[1] \in {"-", "+"} THEN Tail(t) ELSE t
            dots == {i \in DOMAIN body : body[i] = "."}
            dot == IF dots = {} THEN Len(body) + 1 ELSE CHOOSE i \in dots : TRUE
            whole == SubSeq(body, 1, dot - 1)
            frac == SubSeq(body, dot + 1, Len(body))
            isDecimal ==
              /\ \A i \in DOMAIN body : body[i] \in Digits \cup {"."}
              /\ Cardinality(dots) <= 1
              /\ Len(whole) + Len(frac) > 0
            w == DigitsValue(whole)
            hasFrac == \E i \in DOMAIN frac : frac[i] # "0"
        IN  IF body = InfinityChars THEN (IF neg THEN NegInfinity ELSE Infinity)
            ELSE IF ~isDecimal THEN NaN
            ELSE IF hasFrac THEN Half(IF neg THEN 0 - w - 1 ELSE w)
            ELSE Num(IF neg THEN 0 - w ELSE w)

\* Number(value)
Number(cell) ==
  CASE cell.t = "number" -> cell.n
    [] cell.t = "string" -> StringToNumber(cell.s)
    [] cell.t = "null" -> Num(0)
    [] cell.t = "undefined" -> NaN

\* a row that is null instead of an array
NullRow == <<[t |-> "nullrow", n |-> NaN, s |-> <<>>]>>
IsNullRow(row) == row = NullRow

\* row[idx], idx counted from 0
At(row, idx) == IF idx >= 0 /\ idx < Len(row) THEN row[idx + 1] ELSE Undefined

\* a ?? b on cells
OrElse(a, b) == IF a.t \in {"null", "undefined"} THEN b ELSE a

\* a slice that drops the first two rows
DropTwo(rows) == SubSeq(rows, 3, Len(rows))

\* rows.slice(1)
DropHeader(rows) == SubSeq(rows, 2, Len(rows))

\* a slice that keeps every row
SliceAll(rows, n) == rows

\* rows.slice(-n)
SliceLast(rows, n) ==
  IF Len(rows) <= n THEN rows ELSE SubSeq(rows, Len(rows) - n + 1, Len(rows))

\* data[data.length - 1] ?? []
LastRow(data) ==
  IF Len(data) = 0 \/ IsNullRow(data[Len(data)]) THEN <<>> ELSE data[Len(data)]

KeepKp(v) == IsFiniteNum(v) /\ AtLeastZero(v)
KeepWind(v) == IsFiniteNum(v) /\ AboveZero(v)

\* the snapshot computed from the two parsed feeds; reading a column of a
\* null row throws
fetchSpaceWeather(kpRows, solarWindRows) ==
  LET kpData == DropHeader(kpRows)
      lastKpRow == LastRow(kpData)
      kpValueRaw ==
        Number(OrElse(At(lastKpRow, 1),
                      OrElse(At(lastKpRow, Len(lastKpRow) - 1), NumCell(Num(0)))))
      kpIndex == IF IsFiniteNum(kpValueRaw) THEN kpValueRaw ELSE Num(0)
      kpRecent == SliceLast(kpData, HISTORY_LEN)
      kpHistory == SelectSeq([i \in DOMAIN kpRecent |-> Number(At(kpRecent[i], 1))], KeepKp)
      solarWindData == DropHeader(solarWindRows)
      lastPlasmaRow == LastRow(solarWindData)
      speedRaw == Number(OrElse(At(lastPlasmaRow, 2), At(lastPlasmaRow, 1)))
      solarWindSpeed == IF IsFiniteNum(speedRaw) THEN speedRaw ELSE Num(0)
      windRecent == SliceLast(solarWindData, HISTORY_LEN)
      solarWindHistory ==
        SelectSeq([i \in DOMAIN windRecent |-> Number(At(windRecent[i], 2))], KeepWind)
  IN  IF (\E i \in DOMAIN kpRecent : IsNullRow(kpRecent[i]))
         \/ (\E i \in DOMAIN windRecent : IsNullRow(windRecent[i]))
        THEN Rejected(NullDeref)
        ELSE Fulfilled([kpIndex |-> kpIndex, kpHistory |-> kpHistory,
                        solarWindSpeed |-> solarWindSpeed,
                        solarWindHistory |-> solarWindHistory])

\* the call before it is made: no feed has arrived, nothing is returned
WxFeeds == {"kp", "wind"}

WxInit ==
  [st |-> "idle", notRows |-> {}, kpRows |-> <<>>, solarWindRows |-> <<>>,
   out |-> NoValue, err |-> NoErr]

\* the parsed body of a feed that is an array of rows
RowsBody(rows) == [t |-> "rows", rows |-> rows]

\* an aggregation that stands in an empty feed for a failed request
PromiseAllSettled(w, f, res, otherSt) ==
  LET w1 == IF res.st = "rejected" THEN w
            ELSE IF res.body.t # "rows" THEN [w EXCEPT !.notRows = @ \cup {f}]
            ELSE IF f = "kp" THEN [w EXCEPT !.kpRows = res.body.rows]
            ELSE [w EXCEPT !.solarWindRows = res.body.rows]
  IN  IF otherSt = "pending" THEN w1
      ELSE LET result == IF w1.notRows # {} THEN Rejected(NullDeref)
                         ELSE fetchSpaceWeather(w1.kpRows, w1.solarWindRows)
           IN  [w1 EXCEPT !.st = result.st, !.out = result.val, !.err = result.err]

\* api.ts:281-288: await Promise.all([fetchJson(kp), fetchJson(plasma)]),
\* at the moment the request of feed f settles with res while the other
\* request is in state otherSt.  The first rejection rejects the call; the
\* snapshot is computed once both bodies are there, and a body that is not
\* an array makes `.slice` throw.
PromiseAll(w, f, res, otherSt) ==
  IF res.st = "rejected"
    THEN [WxInit EXCEPT !.st = "rejected", !.err = res.err]
    ELSE LET w1 == IF res.body.t # "rows" THEN [w EXCEPT !.notRows = @ \cup {f}]
                   ELSE IF f = "kp" THEN [w EXCEPT !.kpRows = res.body.rows]
                   ELSE [w EXCEPT !.solarWindRows = res.body.rows]
         IN  IF otherSt # "fulfilled" THEN w1
             ELSE LET result == IF w1.notRows # {} THEN Rejected(NullDeref)
                                ELSE fetchSpaceWeather(w1.kpRows, w1.solarWindRows)
                  IN  [w1 EXCEPT !.st = result.st, !.out = result.val, !.err = result.err]

(***************************************************************************)
(* AIExplainer (AIExplainer.tsx:21-138): the chat state and handleSend.    *)
(* A message keeps its role and its content: the text typed by the user,   *)
(* or which text the assistant shows and, in an error text, the message    *)
(* of the error it reports.  Ids and timestamps are left out: nothing      *)
(* reads them.                                                             *)
(***************************************************************************)
MaxSends == 2           \* sends accepted in one behaviour

maxAttempts == 60

UserMessage(typed) ==
  [role |-> "user", kind |-> "question", typed |-> typed, about |-> ""]

AssistantMessage(kind, typed, about) ==
  [role |-> "assistant", kind |-> kind, typed |-> typed, about |-> about]

\* useState(..): the greeting, an empty input, not loading; the environment
\* variable VITE_REPLICATE_API_KEY has not been read yet
ChatInit ==
  [messages |-> <<AssistantMessage("greeting", <<>>, "")>>, input |-> <<>>,
   isLoading |-> FALSE, env |-> "unread", sends |-> 0]

SendIdle == [pc |-> "idle", attempts |-> 0, polls |-> 0, prediction |-> "none", resp |-> NoResp]

\* what the user may type or pick from suggestedQuestions
Inputs == {<<>>, <<" ">>, <<"k", "p">>, <<" ", "k", "p">>}

\* body texts of an error response, error fields of a prediction ("" when
\* absent)
ErrorTexts == {"", "Invalid API key", "Model overloaded"}

KeyMissing == Err("Error", "Replicate API key not configured", 0, "")
ApiError(resp, errorText) == Err("Error", "Replicate API error:", resp.status, errorText)
StatusCheckFailed(resp) == Err("Error", "Failed to check prediction status:", resp.status, "")
PredictionFailed(error) == Err("Error", IF error # "" THEN error ELSE "Prediction failed", 0, "")
PollsExhausted == Err("Error", "Request timed out after 60 seconds", 0, "")

\* errorMessage.includes("API key"), over the texts above
IncludesApiKey(err) ==
  err.isError /\ (err.text \in {KeyMissing.text, "Invalid API key"} \/ err.statusText = "Invalid API key")

\* the catch clause: the assistant message that reports err
ErrorMessage(err) ==
  IF IncludesApiKey(err)
    THEN AssistantMessage("keyText", <<>>, "")
    ELSE AssistantMessage("couldntFetch", <<>>, IF err.isError THEN err.text ELSE "Unknown error")

\* statusData.output: an array of strings (joined), a string, or neither
Outputs ==
  { [t |-> "array", s |-> <<"o", "k", " ">>], [t |-> "array", s |-> <<" ">>],
    [t |-> "string", s |-> <<"o", "k">>], [t |-> "string", s |-> <<>>],
    [t |-> "other", s |-> <<>>] }

\* the assistant message of a succeeded prediction
AnswerMessage(output) ==
  IF output.t = "other" \/ Trim(output.s) = <<>>
    THEN AssistantMessage("fallback", <<>>, "")
    ELSE AssistantMessage("answer", Trim(output.s), "")

\* what the status endpoint's JSON body may be
StatusData ==
  {[t |-> "null", status |-> "", output |-> [t |-> "other", s |-> <<>>], error |-> ""]}
    \cup {[t |-> "object", status |-> "succeeded", output |-> o, error |-> ""] : o \in Outputs}
    \cup {[t |-> "object", status |-> st, output |-> [t |-> "other", s |-> <<>>], error |-> e] :
            st \in {"failed", "canceled"}, e \in ErrorTexts}
    \cup {[t |-> "object", status |-> "processing", output |-> [t |-> "other", s |-> <<>>], error |-> ""]}

(***************************************************************************)
(* State after construction: nothing has been called yet.                  *)
(***************************************************************************)
RunInit == [op |-> "none", input |-> NoBody, start |-> 0, out |-> TaskPending]

Init ==
  /\ now = 0
  /\ req = IdleCall
  /\ launchReq = IdleCall
  /\ calls = [i \in Attempts |-> IdleCall]
  /\ tasks = [i \in Attempts |-> TaskPending]
  /\ agg = AggIdle
  /\ firstOk = 0
  /\ query = QueryInit
  /\ wx = WxInit
  /\ wxCalls = [f \in WxFeeds |-> IdleCall]
  /\ posReq = IdleCall
  /\ pos = TaskPending
  /\ run = RunInit
  /\ single = IdleCall
  /\ singleOut = TaskPending
  /\ position = InitialPosition
  /\ updates = 0
  /\ chat = ChatInit
  /\ send = SendIdle

(***************************************************************************)
(* The clock.  A timer that is due fires before the clock moves on.        *)
(***************************************************************************)
Tick ==
  /\ now < MaxTicks * StepMs
  /\ ~IsDue(req)
  /\ ~IsDue(launchReq)
  /\ ~IsDue(posReq)
  /\ ~IsDue(single)
  /\ \A f \in WxFeeds : ~IsDue(wxCalls[f])
  /\ \A i \in Attempts : ~IsDue(calls[i])
  /\ now' = now + StepMs
  /\ UNCHANGED <<req, calls, tasks, agg, firstOk, launchReq, query, wx, wxCalls, posReq, pos, run, single, singleOut, position, updates, chat, send>>

\* the deadlines of the armed timers that are not due yet
Waiting ==
  {Deadline(calls[i]) : i \in {j \in Attempts : calls[j].timer = "armed"}}
    \cup {Deadline(c) : c \in {d \in {req, launchReq, posReq, single} : d.timer = "armed"}}
    \cup {Deadline(wxCalls[f]) : f \in {g \in WxFeeds : wxCalls[g].timer = "armed"}}

\* Time passes until the next armed timer is due.
Elapse ==
  /\ \E d \in Waiting :
       /\ d > now
       /\ \A e \in Waiting : d <= e
       /\ now' = d
  /\ UNCHANGED <<req, calls, tasks, agg, firstOk, launchReq, query, wx, wxCalls, posReq, pos, run, single, singleOut, position, updates, chat, send>>

(***************************************************************************)
(* One bounded-fetch call on its own, with any timeout a caller passes.    *)
(***************************************************************************)
TimeoutChoices == {6000, 7000, DEFAULT_TIMEOUT, 9000, 12000}

ReqBodies(fn) ==
  IF fn = "fetchTle" THEN TleBodies \cup {Malformed} ELSE PassBodies \cup SatBodies

ReqUnchanged == UNCHANGED <<now, calls, tasks, agg, firstOk, launchReq, query, wx, wxCalls, posReq, pos, run, single, singleOut, position, updates, chat, send>>

StartRequest ==
  /\ req.phase = "idle"
  /\ now <= MaxStartTick * StepMs
  /\ \E fn \in {"fetchJson", "fetchTle"}, timeoutMs \in TimeoutChoices :
       req' = NewCall(fn, timeoutMs, now)
  /\ ReqUnchanged

ReqResponse ==
  /\ req.phase = "fetch"
  /\ \E resp \in Responses : req' = OnResponse(req, resp)
  /\ ReqUnchanged

ReqFetchRejected ==
  /\ req.phase = "fetch"
  /\ \E err \in FetchRejections : req' = Reject(req, err)
  /\ ReqUnchanged

ReqBody ==
  /\ req.phase = "body"
  /\ \E body \in ReqBodies(req.fn) : req' = OnBody(req, body)
  /\ ReqUnchanged

ReqBodyFailed ==
  /\ req.phase = "body"
  /\ \E err \in FetchRejections : req' = Reject(req, err)
  /\ ReqUnchanged

ReqTimer ==
  /\ IsDue(req)
  /\ req' = OnTimer(req)
  /\ ReqUnchanged

NextFetch ==
  \/ Tick
  \/ StartRequest
  \/ ReqResponse
  \/ ReqFetchRejected
  \/ ReqBody
  \/ ReqBodyFailed
  \/ ReqTimer

SpecFetch == Init /\ [][NextFetch]_vars

(***************************************************************************)
(* One call of fetchNextISSPass and the events of its five attempts.       *)
(***************************************************************************)
PassUnchanged == UNCHANGED <<now, req, launchReq, query, wx, wxCalls, posReq, pos, run, single, singleOut, position, updates, chat, send>>

\* api.ts:98-132: every task starts its bounded fetch, then the caller
\* awaits Promise.allSettled(tasks)
CallFetchNextISSPass ==
  /\ agg.st = "idle"
  /\ calls' = [i \in Attempts |->
                 NewCall(FnOf(attempts[i].kind), attempts[i].timeoutMs, now)]
  /\ tasks' = [i \in Attempts |-> TaskPending]
  /\ agg' = [AggIdle EXCEPT !.st = "pending"]
  /\ UNCHANGED firstOk
  /\ PassUnchanged

AttemptResponse(i) ==
  /\ calls[i].phase = "fetch"
  /\ \E resp \in Responses : AdvanceAttempt(i, OnResponse(calls[i], resp))
  /\ PassUnchanged

AttemptFetchRejected(i) ==
  /\ calls[i].phase = "fetch"
  /\ \E err \in FetchRejections : AdvanceAttempt(i, Reject(calls[i], err))
  /\ PassUnchanged

AttemptBody(i) ==
  /\ calls[i].phase = "body"
  /\ \E body \in BodiesOf(attempts[i].kind) : AdvanceAttempt(i, OnBody(calls[i], body))
  /\ PassUnchanged

AttemptBodyFailed(i) ==
  /\ calls[i].phase = "body"
  /\ \E err \in FetchRejections : AdvanceAttempt(i, Reject(calls[i], err))
  /\ PassUnchanged

AttemptTimer(i) ==
  /\ IsDue(calls[i])
  /\ AdvanceAttempt(i, OnTimer(calls[i]))
  /\ PassUnchanged

NextPass ==
  \/ Elapse
  \/ CallFetchNextISSPass
  \/ \E i \in Attempts : AttemptResponse(i)
  \/ \E i \in Attempts : AttemptFetchRejected(i)
  \/ \E i \in Attempts : AttemptBody(i)
  \/ \E i \in Attempts : AttemptBodyFailed(i)
  \/ \E i \in Attempts : AttemptTimer(i)

SpecPass == Init /\ [][NextPass]_vars

\* the event loop: time passes, and a timer that is due has its callback
\* run; nothing makes a source respond
FairPass == WF_vars(Elapse) /\ \A i \in Attempts : WF_vars(AttemptTimer(i))

\* the outcomes of task i that the sources of the liveness check produce:
\* one failure of each kind (timeout, transport, HTTP status, no data) and
\* the well-formed prediction
LiveOutcome(i, task) ==
  LET fn == FnOf(attempts[i].kind)
  IN  \/ task.st = "pending"
      \/ /\ task.st = "rejected"
         /\ task.err \in {TimeoutError(fn), NetworkFailure, NoPassData,
                           HttpError(fn, [status |-> 503, statusText |-> "Service Unavailable"])}
      \/ /\ task.st = "fulfilled"
         /\ attempts[i].kind = "tle" \/ task.val.risetime = Num(5400)

NextPassLive ==
  \/ Elapse
  \/ CallFetchNextISSPass
  \/ \E i \in Attempts : AttemptResponse(i) /\ LiveOutcome(i, tasks'[i])
  \/ \E i \in Attempts : AttemptFetchRejected(i) /\ LiveOutcome(i, tasks'[i])
  \/ \E i \in Attempts : AttemptBody(i) /\ LiveOutcome(i, tasks'[i])
  \/ \E i \in Attempts : AttemptBodyFailed(i) /\ LiveOutcome(i, tasks'[i])
  \/ \E i \in Attempts : AttemptTimer(i)

SpecPassLive == Init /\ [][NextPassLive]_vars /\ FairPass

(***************************************************************************)
(* The two versions of fetchNextISSPass called at the same time for the    *)
(* same observer: what the open-notify source does reaches the request of  *)
(* the single-source version and that of attempt 1 alike, for as long as   *)
(* each of them waits.                                                     *)
(***************************************************************************)
RefineUnchanged ==
  UNCHANGED <<now, req, launchReq, query, wx, wxCalls, posReq, pos, run, position, updates, chat, send>>

CallBothVersions ==
  /\ agg.st = "idle"
  /\ calls' = [i \in Attempts |->
                 NewCall(FnOf(attempts[i].kind), attempts[i].timeoutMs, now)]
  /\ tasks' = [i \in Attempts |-> TaskPending]
  /\ agg' = [AggIdle EXCEPT !.st = "pending"]
  /\ UNCHANGED firstOk
  /\ single' = NewCall("fetchJson", SINGLE_TIMEOUT, now)
  /\ singleOut' = TaskPending
  /\ RefineUnchanged

\* the bounded fetch of the single-source version moves to c2; when that
\* settles it the function resumes
AdvanceSingle(c2) ==
  /\ single' = c2
  /\ singleOut' = IF c2.phase = "settled" /\ single.phase # "settled"
                    THEN fetchNextISSPassSingle(c2.res) ELSE singleOut

\* an event of the open-notify source, for the requests in phase `phase`:
\* it moves attempt 1's to multi2 and the single-source one to single2
OpenNotifyEvent(phase, multi2, single2) ==
  /\ calls[1].phase = phase \/ single.phase = phase
  /\ IF calls[1].phase = phase
       THEN AdvanceAttempt(1, multi2)
       ELSE UNCHANGED <<calls, tasks, firstOk, agg>>
  /\ IF single.phase = phase
       THEN AdvanceSingle(single2)
       ELSE UNCHANGED <<single, singleOut, position, updates, chat, send>>
  /\ RefineUnchanged

OpenNotifyResponse ==
  \E resp \in Responses :
    OpenNotifyEvent("fetch", OnResponse(calls[1], resp), OnResponse(single, resp))

OpenNotifyFetchRejected ==
  \E err \in FetchRejections :
    OpenNotifyEvent("fetch", Reject(calls[1], err), Reject(single, err))

OpenNotifyBody ==
  \E body \in PassBodies :
    OpenNotifyEvent("body", OnBody(calls[1], body), OnBody(single, body))

OpenNotifyBodyFailed ==
  \E err \in FetchRejections :
    OpenNotifyEvent("body", Reject(calls[1], err), Reject(single, err))

SingleTimer ==
  /\ IsDue(single)
  /\ AdvanceSingle(OnTimer(single))
  /\ UNCHANGED <<calls, tasks, firstOk, agg>>
  /\ RefineUnchanged

\* the sources of the attempts after the first
Fallbacks == Attempts \ {1}

NextRefine ==
  \/ Elapse
  \/ CallBothVersions
  \/ OpenNotifyResponse
  \/ OpenNotifyFetchRejected
  \/ OpenNotifyBody
  \/ OpenNotifyBodyFailed
  \/ SingleTimer
  \/ \E i \in Fallbacks : AttemptResponse(i) /\ LiveOutcome(i, tasks'[i])
  \/ \E i \in Fallbacks : AttemptFetchRejected(i) /\ LiveOutcome(i, tasks'[i])
  \/ \E i \in Fallbacks : AttemptBody(i) /\ LiveOutcome(i, tasks'[i])
  \/ \E i \in Fallbacks : AttemptBodyFailed(i) /\ LiveOutcome(i, tasks'[i])
  \/ \E i \in Attempts : AttemptTimer(i)

SpecRefine == Init /\ [][NextRefine]_vars

(***************************************************************************)
(* ISSTracker: the interval callback, every 5 seconds while mounted.       *)
(***************************************************************************)
TrackerUnchanged ==
  UNCHANGED <<now, req, calls, tasks, agg, firstOk, launchReq, query, wx, wxCalls,
              posReq, pos, run, single, singleOut, chat, send>>

UpdateInterval ==
  /\ updates < MaxUpdates
  /\ \E sinLat \in Sines, sinAlt \in Sines, jitter \in Jitters :
       position' = updatePosition(position, sinLat, sinAlt, jitter)
  /\ updates' = updates + 1
  /\ TrackerUnchanged

NextTracker == UpdateInterval

SpecTracker == Init /\ [][NextTracker]_vars

(***************************************************************************)
(* AIExplainer: what the user does, and handleSend step by step.           *)
(***************************************************************************)
ChatUnchanged ==
  UNCHANGED <<now, req, calls, tasks, agg, firstOk, launchReq, query, wx, wxCalls,
              posReq, pos, run, single, singleOut, position, updates>>

\* onChange / handleSuggestion: setInput(..)
SetInput ==
  /\ \E typed \in Inputs : chat' = [chat EXCEPT !.input = typed]
  /\ chat'.input # chat.input
  /\ UNCHANGED send
  /\ ChatUnchanged

\* handleSend has appended msg and leaves through finally
Finish(msg) ==
  /\ chat' = [chat EXCEPT !.messages = Append(@, msg), !.isLoading = FALSE]
  /\ send' = SendIdle

\* a throw inside try: catch appends the error text, then finally
Throw(err) == Finish(ErrorMessage(err))

\* Enter or the Send button.  The call returns at once on a blank input or
\* while loading; without the API key it throws before any request
HandleSend ==
  /\ IF Trim(chat.input) = <<>> \/ chat.isLoading
       THEN UNCHANGED <<chat, send>>
       ELSE /\ chat.sends < MaxSends
            /\ \E key \in {"set", "unset"} :
                 /\ chat.env \in {"unread", key}
                 /\ IF key = "unset"
                      THEN /\ chat' = [chat EXCEPT
                                !.messages = @ \o <<UserMessage(chat.input), ErrorMessage(KeyMissing)>>,
                                !.input = <<>>, !.isLoading = FALSE, !.env = key,
                                !.sends = @ + 1]
                           /\ UNCHANGED send
                      ELSE /\ chat' = [chat EXCEPT
                                !.messages = Append(@, UserMessage(chat.input)),
                                !.input = <<>>, !.isLoading = TRUE, !.env = key,
                                !.sends = @ + 1]
                           /\ send' = [SendIdle EXCEPT !.pc = "post"]
  /\ ChatUnchanged

\* the POST settles with a response
PostResponse ==
  /\ send.pc = "post"
  /\ \E resp \in Responses :
       send' = [send EXCEPT !.pc = IF Ok(resp) THEN "json" ELSE "text", !.resp = resp]
  /\ UNCHANGED chat
  /\ ChatUnchanged

PostRejected ==
  /\ send.pc = "post"
  /\ \E err \in FetchRejections : Throw(err)
  /\ ChatUnchanged

\* res.text() of an error response
ErrorTextRead ==
  /\ send.pc = "text"
  /\ \E errorText \in ErrorTexts : Throw(ApiError(send.resp, errorText))
  /\ ChatUnchanged

ErrorTextFailed ==
  /\ send.pc = "text"
  /\ \E err \in FetchRejections : Throw(err)
  /\ ChatUnchanged

\* res.json(): the prediction; the loop is entered and its first timer set
PredictionRead ==
  /\ send.pc = "json"
  /\ \E prediction \in {"null", "object"} :
       send' = [send EXCEPT !.pc = "wait", !.prediction = prediction, !.resp = NoResp]
  /\ UNCHANGED chat
  /\ ChatUnchanged

PredictionReadFailed ==
  /\ send.pc = "json"
  /\ \E err \in FetchRejections \cup {SyntaxErr} : Throw(err)
  /\ ChatUnchanged

\* the 1000 ms timer of the loop: the status request is sent, unless
\* prediction.id throws
PollTimer ==
  /\ send.pc = "wait"
  /\ IF send.prediction = "null"
       THEN Throw(NullDeref)
       ELSE /\ send' = [send EXCEPT !.pc = "status", !.polls = @ + 1]
            /\ UNCHANGED chat
  /\ ChatUnchanged

StatusResponse ==
  /\ send.pc = "status"
  /\ \E resp \in Responses :
       IF Ok(resp)
         THEN send' = [send EXCEPT !.pc = "statusJson"] /\ UNCHANGED chat
         ELSE Throw(StatusCheckFailed(resp))
  /\ ChatUnchanged

StatusRejected ==
  /\ send.pc = "status"
  /\ \E err \in FetchRejections : Throw(err)
  /\ ChatUnchanged

\* statusRes.json(): the rest of the loop body, the loop test and what
\* follows the loop
StatusRead ==
  /\ send.pc = "statusJson"
  /\ \E data \in StatusData :
       IF data.t = "null" THEN Throw(NullDeref)
       ELSE IF data.status = "succeeded" THEN Finish(AnswerMessage(data.output))
       ELSE IF data.status \in {"failed", "canceled"} THEN Throw(PredictionFailed(data.error))
       ELSE IF send.attempts + 1 < maxAttempts
         THEN send' = [send EXCEPT !.pc = "wait", !.attempts = @ + 1] /\ UNCHANGED chat
         ELSE Throw(PollsExhausted)
  /\ ChatUnchanged

StatusReadFailed ==
  /\ send.pc = "statusJson"
  /\ \E err \in FetchRejections \cup {SyntaxErr} : Throw(err)
  /\ ChatUnchanged

NextChat ==
  \/ SetInput
  \/ HandleSend
  \/ PostResponse
  \/ PostRejected
  \/ ErrorTextRead
  \/ ErrorTextFailed
  \/ PredictionRead
  \/ PredictionReadFailed
  \/ PollTimer
  \/ StatusResponse
  \/ StatusRejected
  \/ StatusRead
  \/ StatusReadFailed

SpecChat == Init /\ [][NextChat]_vars

\* the event loop runs a timer callback that is due; nothing bounds the
\* fetches and body reads of handleSend
FairChat == WF_vars(PollTimer)

SpecChatLive == SpecChat /\ FairChat

\* the stronger assumption that every request and every body read settles
FairSettling ==
  /\ WF_vars(PostResponse \/ PostRejected)
  /\ WF_vars(ErrorTextRead \/ ErrorTextFailed)
  /\ WF_vars(PredictionRead \/ PredictionReadFailed)
  /\ WF_vars(StatusResponse \/ StatusRejected)
  /\ WF_vars(StatusRead \/ StatusReadFailed)

SpecChatSettling == SpecChatLive /\ FairSettling

(***************************************************************************)
(* MissionsFeed: the query function runs on mount, on every refetch        *)
(* interval and once more after a failure; its bounded fetch is launchReq.       *)
(***************************************************************************)
FeedUnchanged ==
  UNCHANGED <<now, req, calls, tasks, agg, firstOk, wx, wxCalls, posReq, pos, run, single, singleOut, position, updates, chat, send>>

\* queryFn: () => fetchUpcomingLaunches(4)
RunQueryFn(q) ==
  /\ launchReq' = NewCall("fetchJson", LAUNCH_TIMEOUT, now)
  /\ query' = [q EXCEPT !.phase = "fetching"]
  /\ FeedUnchanged

MountMissionsFeed ==
  /\ query.phase = "unmounted"
  /\ RunQueryFn([query EXCEPT !.fetches = 1])

\* refetchInterval: a refetch of a query without data shows as loading,
\* a refetch of a query with data keeps its status until it settles
RefetchInterval ==
  /\ query.phase = "idle"
  /\ query.fetches < MaxFetches
  /\ RunQueryFn([query EXCEPT !.fetches = query.fetches + 1, !.failureCount = 0,
                              !.status = IF query.hasData THEN query.status ELSE "loading"])

RetryQuery ==
  /\ query.phase = "retrying"
  /\ RunQueryFn(query)

\* the bounded fetch of the query function moves to c2; when that settles
\* it, fetchUpcomingLaunches settles and the query takes the result
AdvanceQuery(c2) ==
  /\ query.phase = "fetching"
  /\ launchReq' = c2
  /\ query' = IF c2.phase = "settled"
                THEN QuerySettled(query, fetchUpcomingLaunches(c2.res))
                ELSE query
  /\ FeedUnchanged

FeedResponse ==
  /\ launchReq.phase = "fetch"
  /\ \E resp \in Responses : AdvanceQuery(OnResponse(launchReq, resp))

FeedFetchRejected ==
  /\ launchReq.phase = "fetch"
  /\ \E err \in FetchRejections : AdvanceQuery(Reject(launchReq, err))

FeedBody ==
  /\ launchReq.phase = "body"
  /\ \E body \in LaunchBodies : AdvanceQuery(OnBody(launchReq, body))

FeedBodyFailed ==
  /\ launchReq.phase = "body"
  /\ \E err \in FetchRejections : AdvanceQuery(Reject(launchReq, err))

FeedTimer ==
  /\ IsDue(launchReq)
  /\ AdvanceQuery(OnTimer(launchReq))

NextFeed ==
  \/ Elapse
  \/ MountMissionsFeed
  \/ RefetchInterval
  \/ RetryQuery
  \/ FeedResponse
  \/ FeedFetchRejected
  \/ FeedBody
  \/ FeedBodyFailed
  \/ FeedTimer

SpecFeed == Init /\ [][NextFeed]_vars

(***************************************************************************)
(* One call of fetchSpaceWeather and the events of its two requests, over  *)
(* feeds made of a header, rows of one kind and at most one row of another *)
(* kind.                                                                   *)
(***************************************************************************)
TimeTag == StrCell(<<"2", "0", "2", "4">>)
Density == NumCell(Num(5))

Cells ==
  { NumCell(Num(3)), NumCell(Num(0)), NumCell(Num(-1)), NumCell(Half(2)),
    StrCell(<<"4">>), StrCell(<<"2", ".", "3">>), StrCell(<<"-", "1">>),
    StrCell(<<"-", "9", "9", ".", "9">>), StrCell(<<>>), StrCell(<<"a">>),
    StrCell(InfinityChars), NullCell }

KpHeader == <<StrCell(<<"t", "a", "g">>), StrCell(<<"K", "p">>)>>
WindHeader == <<StrCell(<<"t", "a", "g">>), StrCell(<<"d">>), StrCell(<<"s">>)>>

KpRowKinds ==
  {<<TimeTag, c>> : c \in Cells}
    \cup {<<>>, <<TimeTag>>, <<TimeTag, NumCell(Num(2)), NumCell(Num(7))>>,
          <<TimeTag, StrCell(<<"a">>), NumCell(Num(7))>>,
          <<TimeTag, NullCell, NumCell(Num(7))>>, NullRow}

WindRowKinds ==
  {<<TimeTag, Density, c>> : c \in Cells}
    \cup {<<>>, <<TimeTag>>, <<TimeTag, Density>>, NullRow}

KpBaseRows == {<<TimeTag, NumCell(Num(3))>>, <<TimeTag, StrCell(<<"4">>)>>}
WindBaseRows == {<<TimeTag, Density, NumCell(Num(3))>>, <<TimeTag, Density, StrCell(<<"4">>)>>}

\* n rows: the header, then rows `base`, with row `x` at position i
Feed(header, n, base, i, x) ==
  [r \in 1..n |-> IF r = 1 THEN header ELSE IF r = i THEN x ELSE base]

FeedsOf(header, bases, kinds) ==
  {<<>>} \cup {Feed(header, n, b, i, x) : n \in 1..MaxRows, b \in bases, i \in 2..MaxRows, x \in kinds}

PlainFeedsOf(header, bases) ==
  {Feed(header, n, b, 0, b) : n \in {1, 2, MaxRows}, b \in bases}

\* a first row that reads like a data row: it is dropped all the same
KpFirstRows == {KpHeader, <<StrCell(<<"t", "a", "g">>), StrCell(<<"9">>)>>}
WindFirstRows ==
  {WindHeader, <<StrCell(<<"t", "a", "g">>), StrCell(<<"d">>), StrCell(<<"9">>)>>}

KpFeeds == UNION {FeedsOf(h, KpBaseRows, KpRowKinds) : h \in KpFirstRows}
WindFeeds == UNION {FeedsOf(h, WindBaseRows, WindRowKinds) : h \in WindFirstRows}

PlainKpFeeds == UNION {PlainFeedsOf(h, KpBaseRows) : h \in KpFirstRows}
PlainWindFeeds == UNION {PlainFeedsOf(h, WindBaseRows) : h \in WindFirstRows}

Other(f) == IF f = "kp" THEN "wind" ELSE "kp"

\* the feed of f has arrived as an array of rows
Arrived(f) == wxCalls[f].res.st = "fulfilled" /\ f \notin wx.notRows

\* the bodies the source of feed f can send: of two feeds that are both
\* there, one at least is plain
WeatherBodies(f) ==
  LET feeds ==
        IF f = "kp"
          THEN IF Arrived("wind") /\ wx.solarWindRows \notin PlainWindFeeds
                 THEN PlainKpFeeds ELSE KpFeeds
          ELSE IF Arrived("kp") /\ wx.kpRows \notin PlainKpFeeds
                 THEN PlainWindFeeds ELSE WindFeeds
  IN  {NullBody, Malformed} \cup {RowsBody(rows) : rows \in feeds}

WxUnchanged ==
  UNCHANGED <<now, req, calls, tasks, agg, firstOk, launchReq, query, posReq, pos, run, single, singleOut, position, updates, chat, send>>

\* api.ts:281-288: both requests are started before either is awaited
CallFetchSpaceWeather ==
  /\ wx.st = "idle"
  /\ wx' = [WxInit EXCEPT !.st = "pending"]
  /\ wxCalls' = [f \in WxFeeds |-> NewCall("fetchJson", DEFAULT_TIMEOUT, now)]
  /\ WxUnchanged

\* the request of feed f moves to c2; when that settles it, Promise.all
\* takes the result
AdvanceWeather(f, c2) ==
  LET settles == c2.phase = "settled" /\ wxCalls[f].phase # "settled"
  IN  /\ wxCalls' = [wxCalls EXCEPT ![f] = IF settles THEN Release(c2) ELSE c2]
      /\ wx' = IF settles /\ wx.st = "pending"
                 THEN PromiseAll(wx, f, c2.res, wxCalls[Other(f)].res.st)
                 ELSE wx
      /\ WxUnchanged

WeatherResponse(f) ==
  /\ wxCalls[f].phase = "fetch"
  /\ \E resp \in Responses : AdvanceWeather(f, OnResponse(wxCalls[f], resp))

WeatherFetchRejected(f) ==
  /\ wxCalls[f].phase = "fetch"
  /\ \E err \in FetchRejections : AdvanceWeather(f, Reject(wxCalls[f], err))

WeatherBody(f) ==
  /\ wxCalls[f].phase = "body"
  /\ \E body \in WeatherBodies(f) : AdvanceWeather(f, OnBody(wxCalls[f], body))

WeatherBodyFailed(f) ==
  /\ wxCalls[f].phase = "body"
  /\ \E err \in FetchRejections : AdvanceWeather(f, Reject(wxCalls[f], err))

WeatherTimer(f) ==
  /\ IsDue(wxCalls[f])
  /\ AdvanceWeather(f, OnTimer(wxCalls[f]))

NextWeather ==
  \/ Elapse
  \/ CallFetchSpaceWeather
  \/ \E f \in WxFeeds : WeatherResponse(f)
  \/ \E f \in WxFeeds : WeatherFetchRejected(f)
  \/ \E f \in WxFeeds : WeatherBody(f)
  \/ \E f \in WxFeeds : WeatherBodyFailed(f)
  \/ \E f \in WxFeeds : WeatherTimer(f)

SpecWeather == Init /\ [][NextWeather]_vars

(***************************************************************************)
(* Calls of fetchISSPosition, one after the other.                         *)
(***************************************************************************)
PosUnchanged ==
  UNCHANGED <<now, req, calls, tasks, agg, firstOk, launchReq, query, wx, wxCalls, run, single, singleOut, position, updates, chat, send>>

CallFetchISSPosition ==
  /\ ~IsPending(posReq)
  /\ now <= MaxStartTick * StepMs
  /\ posReq' = NewCall("fetchJson", DEFAULT_TIMEOUT, now)
  /\ pos' = TaskPending
  /\ PosUnchanged

\* the bounded fetch moves to c2; when that settles it fetchISSPosition
\* resumes
AdvancePosition(c2) ==
  /\ posReq' = c2
  /\ pos' = IF c2.phase = "settled" /\ posReq.phase # "settled"
              THEN fetchISSPosition(c2.res, now) ELSE pos
  /\ PosUnchanged

PositionResponse ==
  /\ posReq.phase = "fetch"
  /\ \E resp \in Responses : AdvancePosition(OnResponse(posReq, resp))

PositionFetchRejected ==
  /\ posReq.phase = "fetch"
  /\ \E err \in FetchRejections : AdvancePosition(Reject(posReq, err))

PositionBodyRead ==
  /\ posReq.phase = "body"
  /\ \E body \in PositionBodies : AdvancePosition(OnBody(posReq, body))

PositionBodyFailed ==
  /\ posReq.phase = "body"
  /\ \E err \in FetchRejections : AdvancePosition(Reject(posReq, err))

PositionTimer ==
  /\ IsDue(posReq)
  /\ AdvancePosition(OnTimer(posReq))

NextPosition ==
  \/ Tick
  \/ CallFetchISSPosition
  \/ PositionResponse
  \/ PositionFetchRejected
  \/ PositionBodyRead
  \/ PositionBodyFailed
  \/ PositionTimer

SpecPosition == Init /\ [][NextPosition]_vars

(***************************************************************************)
(* One adapter body applied to one body its bounded fetch returned, at a   *)
(* time `start`.                                                           *)
(***************************************************************************)
\* items of {passes: [...]} with rise and set times that are not whole
\* seconds
RunSatPasses ==
  {[aos |-> Iso(a), los |-> Iso(l)] :
     a \in {5400000, 5400500, 5400999},
     l \in {5400000, 5400499, 6000499, 6000500, 6001234}}

\* the bodies fetchJson / fetchTle can return: text that is not JSON never
\* gets as far as the adapter
RunBodies(kind) ==
  CASE kind = "tle" -> {TleBodyOf(n, o) : n \in {1, 2}, o \in ScanOrbits}
    [] kind = "sat" -> SatBodies \cup {ListBody(TRUE, <<p>>) : p \in RunSatPasses}
    [] kind = "open" -> PassBodies \ {Malformed}
    [] kind = "launch" ->
         (LaunchBodies \ {Malformed}) \cup {ListBody(TRUE, <<r>>) : r \in RawLaunches}

RunUnchanged ==
  UNCHANGED <<now, req, calls, tasks, agg, firstOk, launchReq, query, wx, wxCalls, posReq, pos, single, singleOut, position, updates, chat, send>>

\* the task body of an attempt of this kind (api.ts:99-129)
RunAdapter(kind) ==
  /\ run.op = "none"
  /\ \E body \in RunBodies(kind), start \in ScanStarts :
       run' = [op |-> kind, input |-> body, start |-> start,
               out |-> Adapter(kind, [st |-> "fulfilled", body |-> body, err |-> NoErr], start)]
  /\ RunUnchanged

\* the mapping of fetchUpcomingLaunches (api.ts:253-267)
RunLaunchAdapter ==
  /\ run.op = "none"
  /\ \E body \in RunBodies("launch") :
       run' = [op |-> "launch", input |-> body, start |-> 0,
               out |-> fetchUpcomingLaunches([st |-> "fulfilled", body |-> body, err |-> NoErr])]
  /\ RunUnchanged

NextAdapter ==
  \/ \E kind \in {"open", "sat", "tle"} : RunAdapter(kind)
  \/ RunLaunchAdapter

SpecAdapter == Init /\ [][NextAdapter]_vars

(***************************************************************************)
(* The whole dashboard.                                                    *)
(***************************************************************************)
Next ==
  \/ NextFetch
  \/ NextPass
  \/ NextFeed
  \/ NextWeather
  \/ NextPosition
  \/ NextAdapter
  \/ NextRefine
  \/ NextTracker
  \/ NextChat

Spec == Init /\ [][Next]_vars

(***************************************************************************)
(* Claims about fetchNextISSPass, checked under SpecPass.                  *)
(***************************************************************************)
SomeFulfilled == \E i \in Attempts : tasks[i].st = "fulfilled"
AggSettled == agg.st \in {"fulfilled", "rejected"}

\* C1: the value fetchNextISSPass returns is the value of the adapter whose
\* success completed first, whatever its place in the attempts list.
C1_FirstCompletedWins ==
  agg.st = "fulfilled" => (firstOk # 0 /\ agg.val = tasks[firstOk].val)

\* C2: all five adapters are started together, and as soon as one adapter
\* has succeeded the call has resolved, without waiting for the adapters
\* that are still pending.
C2_NoWaitForStragglers ==
  /\ agg.st # "idle" => \A i \in Attempts : calls[i].phase # "idle"
  /\ SomeFulfilled => agg.st = "fulfilled"

C4_FailsOnlyWhenAllFail ==
  /\ agg.st = "rejected" => \A i \in Attempts : tasks[i].st = "rejected"
  /\ agg.st = "fulfilled" =>
       \E i \in Attempts : tasks[i].st = "fulfilled" /\ agg.val = tasks[i].val
  /\ (AllSettled(tasks) /\ SomeFulfilled) => agg.st = "fulfilled"

\* a call that resolved although an adapter declared earlier had failed
C4_Witness ==
  /\ agg.st = "fulfilled"
  /\ tasks[1].st = "rejected"
  /\ tasks[2].st = "rejected"
  /\ tasks[5].st = "fulfilled"

\* C9: every pass returned has an integer rise time and an integer
\* duration that is not negative.
C9_PassPredictionIntegers ==
  agg.st = "fulfilled" =>
    /\ IsInteger(agg.val.risetime)
    /\ IsInteger(agg.val.duration)
    /\ agg.val.duration.v >= 0

(***************************************************************************)
(* Claims about the bounded fetch, checked under SpecFetch.                *)
(***************************************************************************)
TimedOut(c) == c.res.st = "rejected" /\ c.res.err = TimeoutError(c.fn)

\* C5: when the timer of a pending call fires, the request is aborted and
\* the call fails with the timeout failure; and the timeout failure is
\* produced only by the timer, no earlier than timeoutMs after the start.
C5_TimeoutExactlyOnTimer ==
  [][ /\ (IsPending(req) /\ req'.timer = "fired")
          => (req'.aborted /\ req'.phase = "settled" /\ TimedOut(req'))
      /\ (IsPending(req) /\ TimedOut(req'))
          => (req'.timer = "fired" /\ now >= req.startedAt + req.timeoutMs)
    ]_vars

\* a call started after time 0 that was cut off when its timer was due
C5_Witness ==
  /\ TimedOut(req)
  /\ req.startedAt > 0
  /\ req.aborted

\* C6: once a call has settled, on any exit path, its timer is no longer
\* armed, and the call was aborted only on the timeout path.
C6_TimerReleased ==
  req.phase = "settled" =>
    /\ req.timer \in {"cleared", "fired"}
    /\ req.aborted => TimedOut(req)

\* a call that failed on an HTTP error and whose timer was cleared
C6_Witness ==
  /\ req.phase = "settled"
  /\ req.res.st = "rejected"
  /\ req.resp.status = 404
  /\ req.timer = "cleared"

\* C7: a non-2xx response makes fetchJson fail with that status and
\* statusText and no body; a network failure is rethrown as it is; the
\* timeout failure comes only from the abort of the timer.
C7_UniformTranslation ==
  req.fn = "fetchJson" =>
    /\ (req.resp # NoResp /\ ~Ok(req.resp))
         => req.res = [st |-> "rejected", body |-> NoBody, err |-> HttpError(req.fn, req.resp)]
    /\ req.raised = NetworkFailure => req.res.err = NetworkFailure
    /\ TimedOut(req) => (req.aborted /\ req.timer = "fired" /\ req.raised = AbortError)

\* a fetchJson call that received a 503
C7_Witness ==
  /\ req.fn = "fetchJson"
  /\ req.phase = "settled"
  /\ req.resp.status = 503

(***************************************************************************)
(* Claims about MissionsFeed, checked under SpecFeed.                      *)
(***************************************************************************)
\* C8: once a fetch has populated the cached launch list, that list is
\* what the feed shows, also after a later refresh has failed; the mock
\* list is shown only while no launch list has been cached.
C8_LastGoodListServed ==
  (query.hasData /\ Len(query.data) > 0)
    => missions = [i \in DOMAIN query.data |-> query.data[i].id]

(***************************************************************************)
(* Claims about fetchSpaceWeather, checked under SpecWeather.              *)
(***************************************************************************)
\* C10: in every snapshot returned, kpHistory and solarWindHistory have at
\* most 12 entries, all finite, those of kpHistory >= 0 and those of
\* solarWindHistory > 0.
C10_HistoriesBoundedAndClean ==
  wx.st = "fulfilled" =>
    /\ Len(wx.out.kpHistory) <= 12
    /\ Len(wx.out.solarWindHistory) <= 12
    /\ \A i \in DOMAIN wx.out.kpHistory :
         IsFiniteNum(wx.out.kpHistory[i]) /\ AtLeastZero(wx.out.kpHistory[i])
    /\ \A i \in DOMAIN wx.out.solarWindHistory :
         IsFiniteNum(wx.out.solarWindHistory[i]) /\ AboveZero(wx.out.solarWindHistory[i])

\* a snapshot from a Kp feed of more than 12 data rows, one of them with a
\* negative value among the last 12
C10_Witness ==
  /\ wx.st = "fulfilled"
  /\ Len(wx.kpRows) > 13
  /\ Len(wx.out.kpHistory) = 11
  /\ \E r \in 3..Len(wx.kpRows) : wx.kpRows[r] = <<TimeTag, NumCell(Num(-1))>>

\* C11: in every snapshot returned, kpIndex is a finite number between 0
\* and 9 and solarWindSpeed is a finite number that is not negative.
C11_LatestValuesInRange ==
  wx.st = "fulfilled" =>
    /\ IsFiniteNum(wx.out.kpIndex)
    /\ AtLeastZero(wx.out.kpIndex)
    /\ IF IsInteger(wx.out.kpIndex) THEN wx.out.kpIndex.v <= 9 ELSE wx.out.kpIndex.v < 9
    /\ IsFiniteNum(wx.out.solarWindSpeed)
    /\ AtLeastZero(wx.out.solarWindSpeed)

\* the cell holds a finite number: it is there and converts to one
HoldsNumber(cell) == cell.t \notin {"undefined", "null"} /\ IsFiniteNum(Number(cell))

\* C12: the latest Kp value is column 1 of the last data row when that
\* holds a finite number; when column 1 is absent or not numeric it is the
\* row's last column; it is 0 only when neither holds a finite number.
C12_KpFallsBackToLastColumn ==
  (wx.st = "fulfilled" /\ Len(wx.kpRows) >= 2) =>
    LET row == wx.kpRows[Len(wx.kpRows)]
        expected == At(row, 1)
        last == At(row, Len(row) - 1)
    IN  wx.out.kpIndex =
          IF HoldsNumber(expected) THEN Number(expected)
          ELSE IF HoldsNumber(last) THEN Number(last)
          ELSE Num(0)

\* the data rows all hold a value that the history keeps
AllKeptKp(rows) ==
  \A r \in 2..Len(rows) : ~IsNullRow(rows[r]) /\ KeepKp(Number(At(rows[r], 1)))
AllKeptWind(rows) ==
  \A r \in 2..Len(rows) : ~IsNullRow(rows[r]) /\ KeepWind(Number(At(rows[r], 2)))

\* the values of column idx of the data rows, in order
ColumnOfData(rows, idx) == [i \in 1..(Len(rows) - 1) |-> Number(At(rows[i + 1], idx))]

\* C13: of a feed of one header row and N >= 1 data rows exactly row 0 is
\* dropped: the latest Kp and wind speed are those of the last row (row N)
\* when its column holds a number, and N <= 12 rows of valid values all
\* appear in the history, in order.
C13_HeaderDroppedLastRowRead ==
  wx.st = "fulfilled" =>
    /\ Len(wx.kpRows) >= 2 =>
          LET cell == At(wx.kpRows[Len(wx.kpRows)], 1)
          IN  HoldsNumber(cell) => wx.out.kpIndex = Number(cell)
    /\ Len(wx.solarWindRows) >= 2 =>
          LET cell == At(wx.solarWindRows[Len(wx.solarWindRows)], 2)
          IN  HoldsNumber(cell) => wx.out.solarWindSpeed = Number(cell)
    /\ (Len(wx.kpRows) \in 2..(HISTORY_LEN + 1) /\ AllKeptKp(wx.kpRows))
          => wx.out.kpHistory = ColumnOfData(wx.kpRows, 1)
    /\ (Len(wx.solarWindRows) \in 2..(HISTORY_LEN + 1) /\ AllKeptWind(wx.solarWindRows))
          => wx.out.solarWindHistory = ColumnOfData(wx.solarWindRows, 2)

\* a snapshot of a feed whose first row reads like data and whose last row
\* differs from the rows before it
C13_Witness ==
  /\ wx.st = "fulfilled"
  /\ Len(wx.kpRows) \in 4..(HISTORY_LEN + 1)
  /\ wx.kpRows[1] \in KpFirstRows \ {KpHeader}
  /\ wx.kpRows[2] = <<TimeTag, NumCell(Num(3))>>
  /\ wx.kpRows[Len(wx.kpRows)] = <<TimeTag, NumCell(Half(2))>>
  /\ wx.out.kpIndex = Half(2)
  /\ Len(wx.out.kpHistory) = Len(wx.kpRows) - 1

\* C14: fetchSpaceWeather starts both feed requests together and returns a
\* snapshot only if both succeed; if either request fails the call fails
\* and no snapshot, partial or otherwise, is returned.
C14_AllOrNothing ==
  /\ wx.st # "idle" =>
        \A f \in WxFeeds :
          wxCalls[f].phase # "idle" /\ wxCalls[f].startedAt = wxCalls["kp"].startedAt
  /\ wx.st = "fulfilled" => \A f \in WxFeeds : wxCalls[f].res.st = "fulfilled"
  /\ (\E f \in WxFeeds : wxCalls[f].res.st = "rejected")
        => (wx.st = "rejected" /\ wx.out = NoValue)

\* the Kp feed arrived, the plasma request failed
C14_Witness ==
  /\ wxCalls["kp"].res.st = "fulfilled"
  /\ wxCalls["wind"].res.st = "rejected"
  /\ wx.st = "rejected"

(***************************************************************************)
(* Claims about what the adapters make of a successful response.           *)
(***************************************************************************)
\* C15: a successful response without usable records makes the adapter
\* fail: a pass adapter returns a prediction only from a list with an item,
\* fetchSpaceWeather returns a snapshot only from feeds with a data row
\* each, fetchISSPosition returns a position only with its four fields.
C15_NoDefaultedRecords ==
  /\ (run.op \in {"open", "sat"} /\ run.out.st = "fulfilled")
        => (run.input.t = "list" /\ HasItems(run.input))
  /\ wx.st = "fulfilled" => (Len(wx.kpRows) >= 2 /\ Len(wx.solarWindRows) >= 2)
  /\ pos.st = "fulfilled" =>
        /\ pos.val.latitude # None
        /\ pos.val.longitude # None
        /\ pos.val.altitude # None
        /\ pos.val.velocity # None

(***************************************************************************)
(* Claims about the adapters as functions, checked under SpecAdapter.      *)
(***************************************************************************)
\* the elevation at step k is known and > 0, known and <= 0
Above(orbit, k) == HasPosition(orbit, k) /\ ElevationUp(orbit, k)
NotAbove(orbit, k) == HasPosition(orbit, k) /\ ~ElevationUp(orbit, k)

\* the scan step whose time, in whole seconds, is the returned rise time,
\* and the step `duration` seconds after it
RiseStep(r) == (r.out.val.risetime.v * 1000 - r.start + stepMs - 1) \div stepMs
SetStep(r) == RiseStep(r) + (r.out.val.duration.v * 1000) \div stepMs

\* C16: the rise returned by computeNextPassFromTle is the first scan step
\* with elevation > 0 whose preceding step had elevation <= 0, and the set
\* is the first later step with elevation <= 0.
C16_RiseIsACrossing ==
  (run.op = "tle" /\ run.out.st = "fulfilled") =>
    LET o == run.input.orbit
        k == RiseStep(run)
        j == SetStep(run)
    IN  /\ k \in 1..LastStep
        /\ Above(o, k)
        /\ NotAbove(o, k - 1)
        /\ \A i \in 1..(k - 1) : ~(Above(o, i) /\ NotAbove(o, i - 1))
        /\ j \in (k + 1)..LastStep
        /\ NotAbove(o, j)
        /\ \A i \in (k + 1)..(j - 1) : ~NotAbove(o, i)

\* some step of the window is above the horizon and a later one is not
PassInWindow(orbit) ==
  \E a \in 0..LastStep :
    /\ Above(orbit, a)
    /\ a = 0 \/ ~Above(orbit, a - 1)
    /\ \E b \in (a + 1)..LastStep : NotAbove(orbit, b)

\* C17: the local propagation adapter fails with "No pass data returned"
\* whenever the element text has fewer than two lines or the 6-hour window
\* holds no step above the horizon followed by a step not above it.
C17_NoPassNoPrediction ==
  (run.op = "tle" /\ (run.input.lines < 2 \/ ~PassInWindow(run.input.orbit)))
    => (run.out.st = "rejected" /\ run.out.err = NoPassData)

\* an orbit that rises inside the window and has not set at its end
C17_Witness ==
  /\ run.op = "tle"
  /\ run.input.lines = 2
  /\ ElevationUp(run.input.orbit, 60) /\ ElevationUp(run.input.orbit, LastStep)
  /\ HasPosition(run.input.orbit, 60)
  /\ run.out.st = "rejected"

\* r = floor(ms / 1000) and d = max(0, round(ms / 1000)), without division
IsFloorOfSeconds(r, ms) == r * 1000 <= ms /\ ms < (r + 1) * 1000
IsRoundOfSeconds(d, ms) ==
  IF ms < 500 THEN d = 0 ELSE d * 1000 - 500 <= ms /\ ms < d * 1000 + 500

\* C18: the alternate service's and the local propagation's prediction has
\* risetime = floor(riseMs / 1000) and duration = max(0, round((setMs -
\* riseMs) / 1000)), which is 0 when the set is earlier than the rise.
C18_WholeSeconds ==
  /\ (run.op = "sat" /\ run.input.t = "list" /\ HasItems(run.input)
        /\ run.input.list[1].aos.iso /\ run.input.list[1].los.iso) =>
       LET riseMs == run.input.list[1].aos.ms
           setMs == run.input.list[1].los.ms
       IN  /\ run.out.st = "fulfilled"
           /\ IsInteger(run.out.val.risetime) /\ IsInteger(run.out.val.duration)
           /\ IsFloorOfSeconds(run.out.val.risetime.v, riseMs)
           /\ IsRoundOfSeconds(run.out.val.duration.v, setMs - riseMs)
           /\ setMs < riseMs => run.out.val.duration = Num(0)
  /\ (run.op = "tle" /\ run.out.st = "fulfilled") =>
       /\ IsInteger(run.out.val.risetime) /\ IsInteger(run.out.val.duration)
       /\ \E k \in 0..LastStep :
            /\ Above(run.input.orbit, k)
            /\ IsFloorOfSeconds(run.out.val.risetime.v, run.start + k * stepMs)
            /\ \E j \in {SetStep(run)} :
                 /\ NotAbove(run.input.orbit, j)
                 /\ IsRoundOfSeconds(run.out.val.duration.v, (j - k) * stepMs)

\* a set time earlier than the rise time, which is not a whole second
C18_Witness ==
  /\ run.op = "sat"
  /\ run.input.t = "list"
  /\ HasItems(run.input)
  /\ run.input.list[1] = [aos |-> Iso(5400500), los |-> Iso(5400499)]
  /\ run.out.val = [risetime |-> Num(5400), duration |-> Num(0)]

\* the upper-case letters and the pairs <<upper, lower>> of status names
UpperCase ==
  {"A", "B", "C", "D", "E", "F", "G", "H", "I", "J", "K", "L", "M",
   "N", "O", "P", "Q", "R", "S", "T", "U", "V", "W", "X", "Y", "Z"}
CasePairs == {<<"G", "g">>, <<"O", "o">>, <<"T", "t">>, <<"B", "b">>, <<"D", "d">>}

\* `lower` is `str` with its upper-case letters replaced by their lower case
IsLowerCaseOf(lower, str) ==
  /\ Len(lower) = Len(str)
  /\ \A i \in DOMAIN str :
       /\ lower[i] \notin UpperCase
       /\ lower[i] = str[i] \/ <<str[i], lower[i]>> \in CasePairs

\* C19: fetchUpcomingLaunches maps a record without optional fields to
\* provider "Unknown provider", rocket "Unknown vehicle", launchSite "Launch
\* site TBA", status "tbd" and payload "Payload details not provided"; a
\* field that is there is passed on in place of its literal, the status in
\* lower case.
C19_FallbackLiterals ==
  (run.op = "launch" /\ run.out.st = "fulfilled") =>
    /\ Len(run.out.val) = Len(run.input.list)
    /\ \A i \in DOMAIN run.input.list :
         LET raw == run.input.list[i]
             out == run.out.val[i]
         IN  /\ out.provider =
                  IF raw.provider = None THEN "Unknown provider" ELSE raw.provider[1]
             /\ out.rocket =
                  IF raw.rocket = None THEN "Unknown vehicle" ELSE raw.rocket[1]
             /\ out.launchSite =
                  IF raw.padName # None THEN raw.padName[1]
                  ELSE IF raw.locationName # None THEN raw.locationName[1]
                  ELSE "Launch site TBA"
             /\ out.payload =
                  IF raw.description = None THEN "Payload details not provided"
                  ELSE raw.description[1]
             /\ IF raw.status = None THEN out.status = <<"t", "b", "d">>
                ELSE IsLowerCaseOf(out.status, raw.status[1])

\* a record without optional fields, and one with an upper-case status
C19_Witness ==
  /\ run.op = "launch"
  /\ run.out.st = "fulfilled"
  /\ Len(run.input.list) = 2
  /\ run.input.list[1] = MinimalLaunch
  /\ run.input.list[2].status = Some(<<"T", "B", "D">>)
  /\ run.out.val[1].provider = "Unknown provider"
  /\ run.out.val[1].status = <<"t", "b", "d">>

(***************************************************************************)
(* More claims about MissionsFeed, checked under SpecFeed.                 *)
(***************************************************************************)
\* C20: the list fetchUpcomingLaunches returns to the query, called with
\* limit 4, has at most 4 entries whatever the source sent.
C20_AtMostLimitEntries ==
  query.hasData => Len(query.data) <= DEFAULT_LIMIT

(***************************************************************************)
(* Claims about fetchNextISSPass in time, checked under SpecPassLive.      *)
(***************************************************************************)
\* the timeouts of the five attempts, in declaration order
AttemptTimeouts == <<6000, 8000, 8000, 9000, 7000>>

\* C21: a call of fetchNextISSPass eventually settles whatever the sources
\* do: each attempt's request has its own timeout (6000, 8000, 8000, 9000,
\* 7000 ms), a request still pending at its deadline is aborted and its
\* adapter rejects with the timeout failure.
C21_AlwaysSettles ==
  /\ [](agg.st # "idle" =>
          \A i \in Attempts :
            /\ calls[i].timeoutMs = AttemptTimeouts[i]
            /\ calls[i].timer = "fired" =>
                 /\ now >= calls[i].startedAt + AttemptTimeouts[i]
                 /\ tasks[i].st = "rejected"
                 /\ tasks[i].err = TimeoutError(FnOf(attempts[i].kind)))
  /\ (agg.st = "pending") ~> AggSettled

\* no source ever responded: every request was aborted by its timer
C21_Witness ==
  /\ \A i \in Attempts : calls[i].aborted /\ calls[i].timer = "fired"
  /\ agg.st = "rejected"
  /\ now = 9000

(***************************************************************************)
(* Claims about the two versions of fetchNextISSPass, checked under        *)
(* SpecRefine.                                                             *)
(***************************************************************************)
\* C22: for the same behaviour of the sources, whenever the single-source
\* fetchNextISSPass has succeeded with a value v, the multi-source one,
\* once settled, has succeeded with the same v.
C22_MultiRefinesSingle ==
  (singleOut.st = "fulfilled" /\ AggSettled) => agg = Fulfilled(singleOut.val)

\* C22, as the code has it: the multi-source version returns the
\* single-source version's value v whenever the open-notify request of
\* attempt 1 was not cut off by its own, shorter, timeout (6000 ms against
\* 8000 ms) before the source had answered.
C22_RefinesWithinFirstTimeout ==
  (singleOut.st = "fulfilled" /\ ~calls[1].aborted /\ AggSettled)
    => agg = Fulfilled(singleOut.val)

\* both versions return the open-notify value although another source
\* has succeeded with a different one
C22_Witness ==
  /\ singleOut.st = "fulfilled"
  /\ singleOut.val.risetime = Half(7200)
  /\ ~calls[1].aborted
  /\ tasks[4].st = "fulfilled"
  /\ AggSettled
  /\ agg.val = singleOut.val

(***************************************************************************)
(* Claims about the ISSTracker simulation, checked under SpecTracker.      *)
(***************************************************************************)
\* C23: from the initial position and after any number of updatePosition
\* ticks the stored longitude is within [-180, 180] degrees and the stored
\* latitude within [-90, 90] degrees.
C23_PositionInRange ==
  /\ -180 * PerDegree <= position.longitude
  /\ position.longitude <= 180 * PerDegree
  /\ -90 * PerDegree <= position.latitude
  /\ position.latitude <= 90 * PerDegree

(***************************************************************************)
(* Claims about AIExplainer.handleSend, checked under SpecChatLive.        *)
(***************************************************************************)
\* the messages are the greeting followed by one user message and one
\* assistant message per finished send, and the user message of the send
\* that is running
MessagesPaired ==
  /\ Len(chat.messages) = 1 + 2 * chat.sends - (IF chat.isLoading THEN 1 ELSE 0)
  /\ \A k \in 1..Len(chat.messages) :
       chat.messages[k].role = IF k % 2 = 0 THEN "user" ELSE "assistant"

\* the parts of C24 that no step can break
ChatSafety ==
  /\ send.polls <= maxAttempts
  /\ MessagesPaired
  /\ chat.isLoading <=> send.pc # "idle"

\* a send that is ignored leaves the chat as it is, and an accepted one
\* appends the typed text as the user message
SendGuarded ==
  [][(chat'.sends = chat.sends + 1) =>
       /\ Trim(chat.input) # <<>>
       /\ ~chat.isLoading
       /\ chat'.messages[Len(chat.messages) + 1] = UserMessage(chat.input)]_vars

\* C24: every accepted send eventually finishes with isLoading false,
\* having made at most 60 status polls and appended exactly one user
\* message followed by exactly one assistant message; a send with a blank
\* input or while loading changes nothing.
C24_EverySendFinishes ==
  /\ []ChatSafety
  /\ SendGuarded
  /\ chat.isLoading ~> ~chat.isLoading

====
